---- MODULE Spec2Model ----
(***************************************************************************)
(* State-machine model of the opportunity data layer of veille-aap-ami:    *)
(* the store of assets/js/store.js (createStore and its closures), the     *)
(* helpers of assets/js/utils.js it uses, and the handlers of              *)
(* assets/js/ui.js that write through it.                                  *)
(*                                                                         *)
(* Encoding of JavaScript values.                                          *)
(*  - A JSON value held in state.local or in the durable slot is a record  *)
(*    [kind, entries]: kind is "object", "array", "null" or "number";      *)
(*    entries is the function from property names to annotations (for an   *)
(*    array: its named, non-index properties; the arrays of the model have *)
(*    length 0 and the identifiers of the model are never array indices).  *)
(*  - The durable slot (localStorage[LOCAL_KEY]) is [kind, val]: kind is   *)
(*    "absent", "empty" (the empty string), "garbage" (text JSON.parse     *)
(*    rejects) or "json", and then val is the value the text denotes.      *)
(*  - A raw upstream record is [t |-> "rec", f |-> fields], [t |-> "null"] *)
(*    or [t |-> "num"]; field values are strings.                          *)
(*  - A payload is [shape, meta, key, recs, local]: shape "list" (a bare   *)
(*    array), "object" or "null"; meta is payload._meta or NoMeta; key     *)
(*    names the list-valued property ("opportunities", "items", "none").   *)
(*  - Strings are ASCII: accents of the status labels are dropped.         *)
(***************************************************************************)
EXTENDS Integers, Sequences, FiniteSets, TLC

VARIABLES
  state,      \* the store's state object: meta, opportunities, local, rawDataPath, loadError
  storage,    \* the durable slot localStorage[LOCAL_KEY]
  pc,         \* position of the (single) running loadDataset: idle, fetch, json, done
  cand,       \* index in DATA_CANDIDATES of the candidate being awaited (0: none)
  attempts,   \* history: candidates fetched by the current loadDataset, in order
  accepted,   \* history: the payload the current loadDataset accepted, or NoPayload
  pre,        \* history: the dataset as it would be had the current loadDataset done nothing
  named,      \* history: per identifier, the fields named by patchLocal calls since the
              \* overlay was last replaced, each with the value of the last patch naming it
  base,       \* history: the overlay as last constructed or replaced
  last,       \* history: the operation that completed last, with its inputs
  nops,       \* number of store operations called so far (loadDataset included)
  filters,    \* the filters object of createUI
  view        \* what the page shows: the table rows or the drawer's score line

vars ==
  <<state, storage, pc, cand, attempts, accepted, pre, named, base, last, nops, filters, view>>

(***************************************************************************)
(* Bounds of the model.                                                    *)
(***************************************************************************)
MaxOps == 2

(***************************************************************************)
(* Program constants.                                                      *)
(***************************************************************************)
LOCAL_KEY == "aap_watch_local_v1"

DATA_CANDIDATES ==
  <<"data/opportunities.seed.json", "./data/opportunities.json", "./data/data.json">>

PIPELINE_STATUSES ==
  <<"A qualifier", "En analyse", "Go", "No-Go", "Depose", "Abandonne">>

LoadErrorMessage ==
  "Impossible de charger automatiquement un fichier JSON depuis ./data. Utilisez Importer JSON."

NoPath == "null"

Ids == {"a", "b"}

(***************************************************************************)
(* utils.js                                                                *)
(***************************************************************************)
RECURSIVE PickFrom(_, _, _)
PickFrom(f, keys, fallback) ==
  IF keys = <<>> THEN fallback
  ELSE IF Head(keys) \in DOMAIN f /\ f[Head(keys)] # "" THEN f[Head(keys)]
  ELSE PickFrom(f, Tail(keys), fallback)

\* pick(record, keys, fallback): record[key] of a primitive is undefined for every key;
\* of null it raises TypeError (see PickThrows).
Pick(record, keys, fallback) ==
  IF record.t = "rec" THEN PickFrom(record.f, keys, fallback) ELSE fallback

PickThrows(record) == record.t = "null"

\* asArray(value).join(", ") for the scalar string values of the model.
AsArrayJoin(value) == value

\* parseDate / toISODate on the deadline texts of the model: new Date(value) accepts
\* an ISO date or date-time and yields NaN for other text.
ToISODate(value) ==
  CASE value = "2024-01-01" -> "2024-01-01"
    [] value = "2024-06-01T10:00:00Z" -> "2024-06-01"
    [] OTHER -> ""

\* Order of the date strings of the model under JavaScript's string comparison
\* (the empty string is a prefix of every string, so it comes first).
DateRank(d) ==
  CASE d = "" -> 0
    [] d = "2023-12-31" -> 1
    [] d = "2024-01-01" -> 2
    [] d = "2024-06-01" -> 3
    [] d = "9999-12-31" -> 4

\* a <= b on strings
StrLeq(a, b) == DateRank(a) <= DateRank(b)

\* a.localeCompare(b) on date strings
LocaleCompare(a, b) ==
  IF a = b THEN 0 ELSE IF DateRank(a) < DateRank(b) THEN -1 ELSE 1

\* The day new Date() falls on when the page is used.
Today == "2023-12-28"

\* daysUntil(value) ?? fallback, counted from Today: null for text parseDate rejects.
DaysUntilOr(value, fallback) ==
  CASE value = "2024-01-01" -> 4
    [] value = "2024-06-01" -> 156
    [] OTHER -> fallback

\* toLowerCase on the texts of the model
Lower(text) ==
  CASE text = "T1" -> "t1"
    [] text = "N2" -> "n2"
    [] text = "L3" -> "l3"
    [] text = "T4" -> "t4"
    [] text = "T5" -> "t5"
    [] text = "N0" -> "n0"
    [] text = "AAP" -> "aap"
    [] text = "Sans titre" -> "sans titre"
    [] OTHER -> text

\* textIncludes(parts.join(" "), needle).  The needles of the model are whole words and
\* no field value of the model contains one as a proper part, so the joined text
\* includes the needle exactly when one of the parts is the needle, case aside.
TextIncludes(parts, needle) ==
  needle = "" \/ \E i \in DOMAIN parts : Lower(parts[i]) = Lower(needle)

\* trim() on the blockers texts of the model
Trim(text) ==
  CASE text = "  " -> ""
    [] text = " b " -> "b"
    [] OTHER -> text

\* Mutant of Recommendation: the thresholds are exclusive.
Recommendation_Exclusive(score, blockers) ==
  IF Trim(blockers) # "" THEN "No-Go (blockers)"
  ELSE IF score > 20 THEN "Go"
  ELSE IF score > 12 THEN "A approfondir"
  ELSE "No-Go"

\* recommendation(score, blockers)
Recommendation(score, blockers) ==
  IF Trim(blockers) # "" THEN "No-Go (blockers)"
  ELSE IF score >= 20 THEN "Go"
  ELSE IF score >= 12 THEN "A approfondir"
  ELSE "No-Go"

IndexOf(seq, x) ==
  IF \E i \in DOMAIN seq : seq[i] = x
  THEN (CHOOSE i \in DOMAIN seq : seq[i] = x /\ \A j \in 1..(i - 1) : seq[j] # x) - 1
  ELSE -1

(***************************************************************************)
(* Values of the model: metadata, raw records, annotations, overlays.      *)
(***************************************************************************)
EmptyMeta == "{}"
NoMeta == "undefined"

EmptyFields == <<>>

RecA ==
  [t |-> "rec",
   f |-> [id |-> "a", title |-> "T1", type |-> "AAP", deadline |-> "2024-01-01", url |-> "u1"]]
RecB == [t |-> "rec", f |-> [slug |-> "b", name |-> "N2", end_date |-> "bad"]]
RecC ==
  [t |-> "rec", f |-> [label |-> "L3", application_deadline |-> "2024-06-01T10:00:00Z"]]
RecNum == [t |-> "num", f |-> EmptyFields]
\* a record with the deadline of RecA, later in the feed
RecD ==
  [t |-> "rec",
   f |-> [id |-> "d", title |-> "T4", category |-> "eau", territory |-> "974",
          deadline |-> "2024-01-01"]]
\* a record whose uid is the id of RecA
RecTwin == [t |-> "rec", f |-> [uid |-> "a", title |-> "T5"]]
RecNull == [t |-> "null", f |-> EmptyFields]

NoEntries == <<>>
EmptyObject == [kind |-> "object", entries |-> NoEntries]
EmptyArray == [kind |-> "array", entries |-> NoEntries]
NullValue == [kind |-> "null", entries |-> NoEntries]
NumberValue == [kind |-> "number", entries |-> NoEntries]
AbsentValue == [kind |-> "absent", entries |-> NoEntries]

DefaultScore ==
  [strategic_fit |-> 0, eligibility |-> 0, effort |-> 0, impact |-> 0, timing |-> 0,
   blockers |-> ""]

\* The default annotation of getLocal.
DefaultLocal ==
  [notes |-> "", status |-> PIPELINE_STATUSES[1], owner |-> "", nextAction |-> "",
   nextDate |-> "", score |-> DefaultScore]

Fields == {"notes", "status", "owner", "nextAction", "nextDate", "score"}
ScoreFields == {"strategic_fit", "eligibility", "effort", "impact", "timing", "blockers"}

\* Annotations an imported snapshot may carry.
EntryGo ==
  [notes |-> "n0", status |-> "Go", owner |-> "O", nextAction |-> "call",
   nextDate |-> "2024-05-01",
   score |-> [DefaultScore EXCEPT !.impact = 4, !.blockers = "permit"]]
EntryUnknown == [DefaultLocal EXCEPT !.status = "Inconnu", !.owner = "O"]

ObjectOf(entries) == [kind |-> "object", entries |-> entries]

(***************************************************************************)
(* store.js: the durable slot.                                             *)
(***************************************************************************)
\* JSON.stringify of an overlay value: of an array only the indexed elements are
\* written, so its named properties are not part of the text.
JSONStringify(value) ==
  [kind |-> "json",
   val |-> IF value.kind = "array" THEN [value EXCEPT !.entries = NoEntries] ELSE value]

AbsentSlot == [kind |-> "absent", val |-> EmptyObject]
EmptySlot == [kind |-> "empty", val |-> EmptyObject]
GarbageSlot == [kind |-> "garbage", val |-> EmptyObject]

\* loadLocalState: JSON.parse(localStorage.getItem(LOCAL_KEY) || "{}"), {} when it raises.
LoadLocalState(slot) ==
  CASE slot.kind = "absent" -> EmptyObject
    [] slot.kind = "empty" -> EmptyObject
    [] slot.kind = "garbage" -> EmptyObject
    [] OTHER -> slot.val

\* persistLocalState: the text written to the slot.
PersistLocalState(st) == JSONStringify(st.local)

(***************************************************************************)
(* store.js: the overlay.                                                  *)
(***************************************************************************)
\* state.local[id] raises TypeError when state.local is null.
GetLocalThrows(st) == st.local.kind = "null"

GetLocal(st, id) ==
  IF id \in DOMAIN st.local.entries THEN st.local.entries[id] ELSE DefaultLocal

\* Mutant of Spread: the operands in the other order, { ...patch, ...target }.
Spread_TargetWins(target, patch) ==
  [k \in DOMAIN target \cup DOMAIN patch |-> IF k \in DOMAIN target THEN target[k] ELSE patch[k]]

\* { ...target, ...patch }
Spread(target, patch) ==
  [k \in DOMAIN target \cup DOMAIN patch |-> IF k \in DOMAIN patch THEN patch[k] ELSE target[k]]

SetProperty(entries, id, value) ==
  [k \in DOMAIN entries \cup {id} |-> IF k = id THEN value ELSE entries[k]]

\* state.local[id] = ... raises TypeError in module (strict) code when state.local is
\* a primitive.
AssignThrows(st) == st.local.kind \notin {"object", "array"}

\* What a store operation leaves: the state object, the slot, whether it raised to its
\* caller, and (history) the patchLocal call it made, if any.
NoCall == [id |-> "", patch |-> <<>>]
Outcome(st, slot, raised, call) ==
  [state |-> st, storage |-> slot, raised |-> raised, call |-> call]

\* What a getLocal call leaves and returns.
Read(st, slot, raised, value) ==
  [out |-> Outcome(st, slot, raised, NoCall), value |-> value]

\* Mutant of GetLocalCall: a missing entry is stored (and persisted) when it is read.
GetLocalCall_StoresDefault(st, slot, id) ==
  IF GetLocalThrows(st) THEN Read(st, slot, TRUE, "")
  ELSE LET st2 == [st EXCEPT !.local.entries = SetProperty(@, id, GetLocal(st, id))]
       IN Read(st2, PersistLocalState(st2), FALSE, GetLocal(st, id))

\* getLocal(id) as a call: the state object and the slot are not written
GetLocalCall(st, slot, id) ==
  IF GetLocalThrows(st) THEN Read(st, slot, TRUE, "")
  ELSE Read(st, slot, FALSE, GetLocal(st, id))

\* patchLocal(id, patch)
PatchLocal(st, slot, id, patch) ==
  IF GetLocalThrows(st) \/ AssignThrows(st)
  THEN Outcome(st, slot, TRUE, [id |-> id, patch |-> patch])
  ELSE LET st2 == [st EXCEPT !.local.entries = SetProperty(@, id, Spread(GetLocal(st, id), patch))]
       IN Outcome(st2, PersistLocalState(st2), FALSE, [id |-> id, patch |-> patch])

\* Mutant of PatchScore: the patch is merged into the default score card.
PatchScore_FromDefaults(st, slot, id, scorePatch) ==
  IF GetLocalThrows(st) THEN Outcome(st, slot, TRUE, NoCall)
  ELSE PatchLocal(st, slot, id, [score |-> Spread(DefaultScore, scorePatch)])

\* patchScore(id, scorePatch)
PatchScore(st, slot, id, scorePatch) ==
  IF GetLocalThrows(st) THEN Outcome(st, slot, TRUE, NoCall)
  ELSE PatchLocal(st, slot, id, [score |-> Spread(GetLocal(st, id).score, scorePatch)])

\* Mutant of MoveStatus: no return on an unknown status (index -1).
MoveStatus_NoIndexGuard(st, slot, id, direction) ==
  LET index == IndexOf(PIPELINE_STATUSES, GetLocal(st, id).status)
  IN IF index + direction + 1 \notin DOMAIN PIPELINE_STATUSES
     THEN Outcome(st, slot, FALSE, NoCall)
     ELSE PatchLocal(st, slot, id, [status |-> PIPELINE_STATUSES[index + direction + 1]])

\* Mutant of MoveStatus: the direction's sign is ignored.
MoveStatus_AlwaysForward(st, slot, id, direction) ==
  LET index == IndexOf(PIPELINE_STATUSES, GetLocal(st, id).status)
  IN IF index < 0 \/ index + 2 \notin DOMAIN PIPELINE_STATUSES
     THEN Outcome(st, slot, FALSE, NoCall)
     ELSE PatchLocal(st, slot, id, [status |-> PIPELINE_STATUSES[index + 2]])

\* moveStatus(id, direction)
MoveStatus(st, slot, id, direction) ==
  IF GetLocalThrows(st) THEN Outcome(st, slot, TRUE, NoCall)
  ELSE LET index == IndexOf(PIPELINE_STATUSES, GetLocal(st, id).status)
       IN IF index < 0 THEN Outcome(st, slot, FALSE, NoCall)
          ELSE IF index + direction + 1 \notin DOMAIN PIPELINE_STATUSES
               THEN Outcome(st, slot, FALSE, NoCall)
               ELSE PatchLocal(st, slot, id, [status |-> PIPELINE_STATUSES[index + direction + 1]])

(***************************************************************************)
(* store.js: the dataset.                                                  *)
(***************************************************************************)
SynthId(index) == <<"op-1", "op-2", "op-3", "op-4", "op-5">>[index + 1]

\* normalizeOpportunity(record, index), index counted from 0
NormalizeOpportunity(record, index) ==
  [id |-> Pick(record, <<"id", "slug", "uid", "name", "title">>, SynthId(index)),
   title |-> Pick(record, <<"title", "name", "label">>, "Sans titre"),
   type |-> AsArrayJoin(Pick(record, <<"type", "opportunity_type", "program_type">>, "")),
   category |-> AsArrayJoin(Pick(record, <<"category", "categories", "theme">>, "")),
   axis |-> AsArrayJoin(Pick(record, <<"axis", "axe", "axes">>, "")),
   territory |-> AsArrayJoin(Pick(record, <<"territory", "location", "zone">>, "")),
   deadline |-> ToISODate(Pick(record, <<"deadline", "application_deadline", "end_date">>, "")),
   sourceUrl |-> Pick(record, <<"url", "source_url", "link">>, ""),
   raw |-> record]

\* source.map((record, index) => normalizeOpportunity(record, index))
MapNormalize(source) == [i \in 1..Len(source) |-> NormalizeOpportunity(source[i], i - 1)]

MapThrows(source) == \E i \in 1..Len(source) : PickThrows(source[i])

Hydrated(st, threw) == [state |-> st, threw |-> threw]

\* Mutant of HydrateFromPayload: the state object is rebuilt, its overlay emptied.
HydrateFromPayload_ResetsOverlay(st, payload) ==
  LET source == IF payload.shape = "list" \/ payload.key \in {"opportunities", "items"}
                THEN payload.recs ELSE <<>>
  IN IF MapThrows(source) THEN Hydrated(st, TRUE)
     ELSE Hydrated([st EXCEPT !.meta = IF payload.meta # NoMeta THEN payload.meta ELSE EmptyMeta,
                              !.opportunities = MapNormalize(source),
                              !.local = EmptyObject], FALSE)

\* hydrateFromPayload(payload): state.meta is assigned before the records are mapped,
\* state.opportunities after; a record that makes pick raise leaves the first done
\* and the second not.
HydrateFromPayload(st, payload) ==
  IF payload.shape = "list"
  THEN LET st1 == [st EXCEPT !.meta = EmptyMeta]
       IN IF MapThrows(payload.recs) THEN Hydrated(st1, TRUE)
          ELSE Hydrated([st1 EXCEPT !.opportunities = MapNormalize(payload.recs)], FALSE)
  ELSE LET st1 == [st EXCEPT !.meta = IF payload.shape = "object" /\ payload.meta # NoMeta
                                      THEN payload.meta ELSE EmptyMeta]
           source == IF payload.shape = "object" /\ payload.key \in {"opportunities", "items"}
                     THEN payload.recs ELSE <<>>
       IN IF MapThrows(source) THEN Hydrated(st1, TRUE)
          ELSE Hydrated([st1 EXCEPT !.opportunities = MapNormalize(source)], FALSE)

\* Mutant of ExportSnapshot: the normalized items are exported, not item.raw.
ExportSnapshot_Normalized(st) ==
  [shape |-> "object", meta |-> st.meta, key |-> "opportunities",
   recs |-> [i \in 1..Len(st.opportunities) |->
               [t |-> "rec",
                f |-> [id |-> st.opportunities[i].id, title |-> st.opportunities[i].title,
                       type |-> st.opportunities[i].type,
                       deadline |-> st.opportunities[i].deadline,
                       sourceUrl |-> st.opportunities[i].sourceUrl]]],
   local |-> st.local]

\* exportSnapshot()
ExportSnapshot(st) ==
  [shape |-> "object", meta |-> st.meta, key |-> "opportunities",
   recs |-> [i \in 1..Len(st.opportunities) |-> st.opportunities[i].raw],
   local |-> st.local]

\* Mutant of ImportSnapshot: an imported dataset clears the load advisory.
ImportSnapshot_ClearsError(st, slot, payload) ==
  LET h == IF payload.shape = "object" /\ payload.key = "opportunities"
           THEN HydrateFromPayload([st EXCEPT !.loadError = ""], payload)
           ELSE Hydrated(st, FALSE)
  IN IF h.threw THEN Outcome(h.state, slot, TRUE, NoCall)
     ELSE IF payload.shape = "object" /\ payload.local.kind \in {"object", "array"}
          THEN LET st2 == [h.state EXCEPT !.local = payload.local]
               IN Outcome(st2, PersistLocalState(st2), FALSE, NoCall)
          ELSE Outcome(h.state, slot, FALSE, NoCall)

\* importSnapshot(payload)
ImportSnapshot(st, slot, payload) ==
  LET h == IF payload.shape = "object" /\ payload.key = "opportunities"
           THEN HydrateFromPayload(st, payload) ELSE Hydrated(st, FALSE)
  IN IF h.threw THEN Outcome(h.state, slot, TRUE, NoCall)
     ELSE IF payload.shape = "object" /\ payload.local.kind \in {"object", "array"}
          THEN LET st2 == [h.state EXCEPT !.local = payload.local]
               IN Outcome(st2, PersistLocalState(st2), FALSE, NoCall)
          ELSE Outcome(h.state, slot, FALSE, NoCall)

DatasetOf(st) == [meta |-> st.meta, opportunities |-> st.opportunities]

(***************************************************************************)
(* ui.js: the filters and the query of the table.                          *)
(***************************************************************************)
DefaultFilters ==
  [search |-> "", type |-> "", category |-> "", axis |-> "", territory |-> "",
   min |-> "", max |-> "", urgent |-> FALSE, sort |-> "asc"]

\* Mutant of EffectiveDeadline: an empty deadline is compared as it is.
EffectiveDeadline_AsIs(op) == op.deadline

\* op.deadline || "9999-12-31"
EffectiveDeadline(op) == IF op.deadline = "" THEN "9999-12-31" ELSE op.deadline

\* the callback of filter
Matches(st, f, op) ==
  LET local == GetLocal(st, op.id)
      text == <<op.title, op.type, op.category, op.axis, op.territory, local.notes>>
      due == EffectiveDeadline(op)
      inRange == (f.min = "" \/ StrLeq(f.min, due)) /\ (f.max = "" \/ StrLeq(due, f.max))
      urgent == ~f.urgent \/ DaysUntilOr(op.deadline, 999) < 7
  IN /\ TextIncludes(text, f.search)
     /\ (f.type = "" \/ op.type = f.type)
     /\ (f.category = "" \/ op.category = f.category)
     /\ (f.axis = "" \/ op.axis = f.axis)
     /\ (f.territory = "" \/ op.territory = f.territory)
     /\ inRange
     /\ urgent

\* Mutant of Compare: the sort direction is ignored.
Compare_AscendingOnly(a, b, sort) ==
  LocaleCompare(EffectiveDeadline(a), EffectiveDeadline(b))

\* the callback of sort
Compare(a, b, sort) ==
  IF sort = "asc"
  THEN LocaleCompare(EffectiveDeadline(a), EffectiveDeadline(b))
  ELSE LocaleCompare(EffectiveDeadline(b), EffectiveDeadline(a))

\* Array.prototype.sort is stable: an element goes after every element that does not
\* compare greater than it.
RECURSIVE InsertSorted(_, _, _)
InsertSorted(sorted, x, sort) ==
  IF sorted = <<>> THEN <<x>>
  ELSE IF Compare(Head(sorted), x, sort) <= 0
       THEN <<Head(sorted)>> \o InsertSorted(Tail(sorted), x, sort)
       ELSE <<x>> \o sorted

RECURSIVE StableSort(_, _)
StableSort(seq, sort) ==
  IF seq = <<>> THEN <<>>
  ELSE InsertSorted(StableSort(SubSeq(seq, 1, Len(seq) - 1), sort), seq[Len(seq)], sort)

\* filteredOpportunities()
FilteredOpportunities(st, f) ==
  StableSort(SelectSeq(st.opportunities, LAMBDA op : Matches(st, f, op)), f.sort)

NoView == [kind |-> "none", rows |-> <<>>, id |-> "", total |-> 0, reco |-> ""]

\* renderTable: one row per opportunity of the query
TableView(st, f) == [NoView EXCEPT !.kind = "table", !.rows = FilteredOpportunities(st, f)]

(***************************************************************************)
(* ui.js: the drawer.                                                      *)
(***************************************************************************)
\* the largest value a score input takes (max="5")
MaxScore == 5

\* Object.entries(score).filter(([k]) => k !== "blockers")
\*   .reduce((sum, [, v]) => sum + Number(v || 0), 0), the values being numbers
RECURSIVE SumOver(_, _)
SumOver(score, keys) ==
  IF keys = {} THEN 0
  ELSE LET k == CHOOSE x \in keys : TRUE
       IN score[k] + SumOver(score, keys \ {k})

ScoreTotal(score) == SumOver(score, DOMAIN score \ {"blockers"})

\* openDrawer(id), the opportunity found: the total and the recommendation it shows
DrawerView(st, id) ==
  LET score == GetLocal(st, id).score
      total == ScoreTotal(score)
  IN [NoView EXCEPT !.kind = "drawer", !.id = id, !.total = total,
                    !.reco = Recommendation(total, score.blockers)]

(***************************************************************************)
(* Inputs of the model.                                                    *)
(***************************************************************************)
Payload(shape, meta, key, recs, local) ==
  [shape |-> shape, meta |-> meta, key |-> key, recs |-> recs, local |-> local]

PList == Payload("list", NoMeta, "none", <<RecA, RecC>>, AbsentValue)
PSeed == Payload("object", "M1", "opportunities", <<RecA, RecB>>, AbsentValue)
PItems == Payload("object", "M2", "items", <<RecB, RecNum>>, AbsentValue)
POther == Payload("object", "M2", "none", <<>>, AbsentValue)
PNull == Payload("null", NoMeta, "none", <<>>, AbsentValue)
PBadList == Payload("list", NoMeta, "none", <<RecNull>>, AbsentValue)
PBadSeed == Payload("object", "M2", "opportunities", <<RecA, RecNull>>, AbsentValue)
PTwins == Payload("object", "M1", "opportunities", <<RecA, RecTwin>>, AbsentValue)
Unparseable == Payload("unparseable", NoMeta, "none", <<>>, AbsentValue)
NoPayload == Payload("none", NoMeta, "none", <<>>, AbsentValue)

PUndatedFirst == Payload("list", NoMeta, "none", <<RecB, RecC>>, AbsentValue)
PMixed == Payload("list", NoMeta, "none", <<RecB, RecC, RecA, RecNum, RecD>>, AbsentValue)

\* The datasets the query is run on.
QueryPayloads == {PSeed, PList, PUndatedFirst, PMixed, POther}

\* The values the filter controls are given.
FilterValues ==
  [search |-> {"", "t1", "N0"}, type |-> {"", "AAP"}, category |-> {"", "eau"},
   axis |-> {"", "x"}, territory |-> {"", "974"},
   min |-> {"", "2023-12-31", "2024-01-01", "2024-06-01"},
   max |-> {"", "2023-12-31", "2024-01-01", "2024-06-01"},
   urgent |-> BOOLEAN, sort |-> {"asc", "desc"}]

\* The score cards the drawer's inputs can have written.
BlockerTexts == {"", "  ", " b ", "permit"}
ScoreCards ==
  [strategic_fit : 0..MaxScore, eligibility : 0..MaxScore, effort : 0..MaxScore,
   impact : 0..MaxScore, timing : 0..MaxScore, blockers : BlockerTexts]

\* Slot contents an earlier session leaves after scoring opportunity a.
ScoredSlots ==
  {JSONStringify(ObjectOf([a |-> [DefaultLocal EXCEPT !.score = sc]])) : sc \in ScoreCards}

\* What response.json() may settle to: a parsed document or a SyntaxError.
LoaderPayloads == {PList, PSeed, PItems, POther, PNull, PBadList, PBadSeed, PTwins}
JsonOutcomes == LoaderPayloads \cup {Unparseable}
FetchOutcomes == {"reject", "notok", "ok"}

LocalGo == ObjectOf([a |-> EntryGo])
LocalUnknown == ObjectOf([a |-> EntryGo, b |-> EntryUnknown])
LocalOnly(local) == Payload("object", NoMeta, "none", <<>>, local)

\* The documents an import may be given.
ImportPayloads ==
  {PSeed, PBadSeed, PItems, PList, PNull, PTwins,
   LocalOnly(EmptyObject), LocalOnly(LocalGo), LocalOnly(LocalUnknown),
   LocalOnly(EmptyArray), LocalOnly(NumberValue), LocalOnly(NullValue),
   [PSeed EXCEPT !.local = LocalUnknown], [PBadSeed EXCEPT !.local = LocalGo]}

\* The patches patchLocal is given by the drawer's inputs (one field each) and by
\* other callers (several fields).
Patches ==
  {[owner |-> "X"], [owner |-> "Z"], [notes |-> "Y"], [nextAction |-> "A"],
   [nextDate |-> "2024-07-01"], [owner |-> "W", notes |-> "V"]}

ScorePatches == {[strategic_fit |-> 5], [eligibility |-> 3], [blockers |-> "b"]}

Directions == {-1, 1}

\* Slot contents an earlier session of the program leaves.
WrittenSlots == {AbsentSlot, JSONStringify(LocalGo)}

\* Any slot content: also text other programs or the user put there.
AnySlots ==
  WrittenSlots \cup
  {EmptySlot, GarbageSlot, JSONStringify(NullValue), JSONStringify(NumberValue),
   JSONStringify(EmptyArray)}

(***************************************************************************)
(* createStore                                                             *)
(***************************************************************************)
Op(op, id, arg, raised) == [op |-> op, id |-> id, arg |-> arg, raised |-> raised]

NoAccept == [cand |-> 0, payload |-> NoPayload]

CreateStore(slot) ==
  [meta |-> EmptyMeta, opportunities |-> <<>>, local |-> LoadLocalState(slot),
   rawDataPath |-> NoPath, loadError |-> ""]

InitWith(slots) ==
  /\ storage \in slots
  /\ state = CreateStore(storage)
  /\ pc = "idle"
  /\ cand = 0
  /\ attempts = <<>>
  /\ accepted = NoAccept
  /\ pre = DatasetOf(state)
  /\ named = [i \in Ids |-> <<>>]
  /\ base = state.local
  /\ last = Op("createStore", "", "", FALSE)
  /\ nops = 0
  /\ filters = DefaultFilters
  /\ view = NoView

Init == InitWith(WrittenSlots)

InitAnySlot == InitWith(AnySlots)

(***************************************************************************)
(* loadDataset: one step per suspension point.                             *)
(***************************************************************************)
\* Mutant of LoadAccepted: the advisory of an earlier load is kept.
LoadAccepted_KeepsError(st, path) == [st EXCEPT !.rawDataPath = path]

\* lines 26-27
LoadAccepted(st, path) == [st EXCEPT !.rawDataPath = path, !.loadError = ""]

\* Mutant of LoadFailed: no advisory is set.
LoadFailed_Silent(st) == st

\* line 33
LoadFailed(st) == [st EXCEPT !.loadError = LoadErrorMessage]

\* Mutant of ReturnsOnAccept: the return is missing and the loop goes on.
ReturnsOnAccept_Missing == FALSE

\* line 28: the return that ends the loop once a candidate is accepted
ReturnsOnAccept == TRUE

\* The for-of loop after candidate cand is done with: the next candidate is fetched,
\* or the loop ends; st is the state object as the candidate left it.
LoopOn(st, failed) ==
  IF cand < Len(DATA_CANDIDATES)
  THEN /\ pc' = "fetch"
       /\ cand' = cand + 1
       /\ attempts' = Append(attempts, cand + 1)
       /\ state' = st
  ELSE /\ pc' = "done"
       /\ cand' = 0
       /\ attempts' = attempts
       /\ state' = IF failed THEN LoadFailed(st) ELSE st

\* main() at its last line: the store is built, the handlers are bound, loadDataset
\* accepted its first candidate's document, and nothing is rendered yet.
InitLoaded(slots, payloads) ==
  /\ storage \in slots
  /\ \E p \in payloads :
       /\ state = LoadAccepted(HydrateFromPayload(CreateStore(storage), p).state,
                               DATA_CANDIDATES[1])
       /\ accepted = [cand |-> 1, payload |-> p]
       /\ last = Op("json", "", p, FALSE)
  /\ pc = "done"
  /\ cand = 0
  /\ attempts = <<1>>
  /\ pre = DatasetOf(CreateStore(storage))
  /\ named = [i \in Ids |-> <<>>]
  /\ base = state.local
  /\ nops = 1
  /\ filters = DefaultFilters
  /\ view = NoView

InitQuery == InitLoaded(WrittenSlots, QueryPayloads)

InitDrawer == InitLoaded(ScoredSlots, {PSeed})

StartLoad ==
  /\ pc \in {"idle", "done"}
  /\ nops < MaxOps
  /\ pc' = "fetch"
  /\ cand' = 1
  /\ attempts' = <<1>>
  /\ accepted' = NoAccept
  /\ pre' = DatasetOf(state)
  /\ last' = Op("loadDataset", "", "", FALSE)
  /\ nops' = nops + 1
  /\ UNCHANGED <<state, storage, named, base, filters, view>>

\* await fetch(path) settles
FetchSettles ==
  /\ pc = "fetch"
  /\ \E o \in FetchOutcomes :
       /\ IF o = "ok"
          THEN pc' = "json" /\ UNCHANGED <<state, cand, attempts>>
          ELSE LoopOn(state, accepted = NoAccept)
       /\ last' = Op("fetch", "", o, FALSE)
  /\ UNCHANGED <<storage, accepted, pre, named, base, nops, filters, view>>

\* await response.json() settles
JsonSettles ==
  /\ pc = "json"
  /\ \E o \in JsonOutcomes :
       /\ IF o = Unparseable
          THEN LoopOn(state, accepted = NoAccept) /\ UNCHANGED accepted
          ELSE LET h == HydrateFromPayload(state, o)
               IN IF h.threw
                  THEN LoopOn(h.state, accepted = NoAccept) /\ UNCHANGED accepted
                  ELSE /\ accepted' = [cand |-> cand, payload |-> o]
                       /\ IF ReturnsOnAccept
                          THEN /\ state' = LoadAccepted(h.state, DATA_CANDIDATES[cand])
                               /\ pc' = "done"
                               /\ cand' = 0
                               /\ attempts' = attempts
                          ELSE LoopOn(LoadAccepted(h.state, DATA_CANDIDATES[cand]), FALSE)
       /\ last' = Op("json", "", o, FALSE)
  /\ UNCHANGED <<storage, pre, named, base, nops, filters, view>>

(***************************************************************************)
(* Events: the handlers of ui.js and the store operations they call.       *)
(***************************************************************************)
\* Last writer wins, field by field, over the patchLocal calls made.
NamedAfter(call) ==
  IF call = NoCall THEN named
  ELSE [named EXCEPT ![call.id] =
          [k \in DOMAIN @ \cup DOMAIN call.patch |->
             IF k \in DOMAIN call.patch THEN call.patch[k] ELSE @[k]]]

Event(r, op) ==
  /\ nops < MaxOps
  /\ nops' = nops + 1
  /\ state' = r.state
  /\ storage' = r.storage
  /\ named' = NamedAfter(r.call)
  /\ last' = [op EXCEPT !.raised = r.raised]
  /\ UNCHANGED <<pc, cand, attempts, accepted, pre, base, filters, view>>

\* a read of an annotation (rendering, CSV export)
DoGetLocal ==
  \E id \in Ids :
    LET r == GetLocalCall(state, storage, id)
    IN Event(r.out, Op("getLocal", id, r.value, FALSE))

\* ui.js 273-276: the drawer's text inputs
DoPatchLocal ==
  \E id \in Ids, patch \in Patches :
    Event(PatchLocal(state, storage, id, patch), Op("patchLocal", id, patch, FALSE))

\* ui.js 272: the drawer's status select
DoStatusEdit ==
  \E id \in Ids, s \in DOMAIN PIPELINE_STATUSES :
    Event(PatchLocal(state, storage, id, [status |-> PIPELINE_STATUSES[s]]),
          Op("statusEdit", id, PIPELINE_STATUSES[s], FALSE))

\* ui.js 277-280: the drawer's score inputs
DoPatchScore ==
  \E id \in Ids, scorePatch \in ScorePatches :
    Event(PatchScore(state, storage, id, scorePatch), Op("patchScore", id, scorePatch, FALSE))

\* ui.js 216-221: the kanban arrows
DoMoveStatus ==
  \E id \in Ids, direction \in Directions :
    Event(MoveStatus(state, storage, id, direction),
          Op("moveStatus", id,
             [direction |-> direction,
              from |-> IF GetLocalThrows(state) THEN "" ELSE GetLocal(state, id).status],
             FALSE))

Imported(payload, op) ==
  LET r == ImportSnapshot(state, storage, payload)
  IN /\ nops < MaxOps
     /\ nops' = nops + 1
     /\ state' = r.state
     /\ storage' = r.storage
     /\ pre' = DatasetOf(r.state)
     /\ IF r.state.local # state.local
        THEN base' = r.state.local /\ named' = [i \in Ids |-> <<>>]
        ELSE UNCHANGED <<base, named>>
     /\ last' = Op(op, "", payload, r.raised)
     /\ UNCHANGED <<pc, cand, attempts, accepted, filters, view>>

\* ui.js 72-79: the import input
DoImport == \E payload \in ImportPayloads : Imported(payload, "importSnapshot")

\* exportSnapshot() and importSnapshot of the value it returned
DoExportImport == Imported(ExportSnapshot(state), "exportImport")

\* ui.js 41-56: a filter control changes, its handler sets the filter and renders
BindFilter ==
  /\ \E k \in DOMAIN FilterValues :
       \E v \in FilterValues[k] : filters' = [filters EXCEPT ![k] = v]
  /\ view' = TableView(state, filters')
  /\ UNCHANGED <<state, storage, pc, cand, attempts, accepted, pre, named, base, last, nops>>

\* ui.js 242-281: a row is clicked and the drawer opens on its opportunity
OpenDrawer ==
  /\ \E id \in Ids :
       /\ \E i \in DOMAIN state.opportunities : state.opportunities[i].id = id
       /\ view' = DrawerView(state, id)
  /\ UNCHANGED <<state, storage, pc, cand, attempts, accepted, pre, named, base, last, nops,
                 filters>>

Next ==
  \/ StartLoad
  \/ FetchSettles
  \/ JsonSettles
  \/ DoGetLocal
  \/ DoPatchLocal
  \/ DoStatusEdit
  \/ DoPatchScore
  \/ DoMoveStatus
  \/ DoImport
  \/ DoExportImport

Spec == Init /\ [][Next]_vars

SpecAnySlot == InitAnySlot /\ [][Next]_vars

\* Every retrieval settles: a pending fetch and a pending response.json() are
\* eventually fulfilled or rejected.
SpecFair == Init /\ [][Next]_vars /\ WF_vars(FetchSettles) /\ WF_vars(JsonSettles)

\* The page once loaded, its filter controls in use.
SpecQuery == InitQuery /\ [][BindFilter]_vars

\* The page once loaded, the drawer opened on a scored opportunity.
SpecDrawer == InitDrawer /\ [][OpenDrawer]_vars

(***************************************************************************)
(* Vocabulary of the properties.                                           *)
(***************************************************************************)
OverlayOf(value) == [local |-> value]

OppIds(st) == {st.opportunities[i].id : i \in 1..Len(st.opportunities)}

RawsOf(st) == [i \in 1..Len(st.opportunities) |-> st.opportunities[i].raw]

\* The records and the metadata a document carries for the dataset.
RecordsIn(p) ==
  IF p.shape = "list" \/ (p.shape = "object" /\ p.key \in {"opportunities", "items"})
  THEN p.recs ELSE <<>>

MetaIn(p) == IF p.shape = "object" /\ p.meta # NoMeta THEN p.meta ELSE EmptyMeta

HasOpportunitiesList(p) == p.shape = "object" /\ p.key = "opportunities"

HasLocalMapping(p) == p.shape = "object" /\ p.local.kind = "object"

LoaderOps == {"loadDataset", "fetch", "json"}

LoadJustEnded == pc = "done" /\ last.op \in {"fetch", "json"}

FixedOrder == <<"A qualifier", "En analyse", "Go", "No-Go", "Depose", "Abandonne">>

(***************************************************************************)
(* C1.  When loadDataset ends with every candidate failed, loadError is    *)
(* non-empty and meta and opportunities are what they would be had the     *)
(* call not been made (no event between the call's last step and the       *)
(* state judged).                                                          *)
(***************************************************************************)
C1_AllFailedLeavesDataset ==
  (LoadJustEnded /\ accepted = NoAccept) =>
     /\ state.loadError # ""
     /\ DatasetOf(state) = pre

(***************************************************************************)
(* C2.  The candidates are fetched in list order, one at a time; once one  *)
(* is accepted the load is over and no later candidate is fetched;         *)
(* rawDataPath names the accepted candidate, loadError is empty, and when  *)
(* the load ends meta and opportunities are those of the accepted document *)
(* alone.                                                                  *)
(***************************************************************************)
C2_FirstAcceptedOnly ==
  /\ \A i \in 1..Len(attempts) : attempts[i] = i
  /\ Len(attempts) <= Len(DATA_CANDIDATES)
  /\ pc \in {"fetch", "json"} => cand = Len(attempts) /\ accepted = NoAccept
  /\ accepted # NoAccept =>
       /\ pc = "done"
       /\ Len(attempts) = accepted.cand
       /\ state.rawDataPath = DATA_CANDIDATES[accepted.cand]
       /\ state.loadError = ""
  /\ (accepted # NoAccept /\ last.op = "json") =>
       /\ last.arg = accepted.payload
       /\ state.meta = MetaIn(accepted.payload)
       /\ RawsOf(state) = RecordsIn(accepted.payload)
       /\ \A i \in 1..Len(state.opportunities) :
            state.opportunities[i] = NormalizeOpportunity(accepted.payload.recs[i], i - 1)

C2_Witness ==
  /\ LoadJustEnded
  /\ accepted.cand = 2
  /\ accepted.payload = PSeed
  /\ Len(state.opportunities) = 2

(***************************************************************************)
(* C3.  The durable slot holds every change the in-memory overlay holds:   *)
(* what the slot reads back as is the overlay.                             *)
(***************************************************************************)
C3_SlotHoldsOverlay == LoadLocalState(storage) = state.local

(***************************************************************************)
(* C4.  Over the patchLocal calls made on an identifier since the overlay  *)
(* was last built or replaced, each field of its annotation is the value   *)
(* of the last patch naming it, and a field no patch named is as it was    *)
(* (or the default).                                                       *)
(***************************************************************************)
C4_LastPatchWinsPerField ==
  \A id \in Ids :
    \A k \in Fields :
      GetLocal(state, id)[k] =
        IF k \in DOMAIN named[id] THEN named[id][k] ELSE GetLocal(OverlayOf(base), id)[k]

\* patch {owner: X} then patch {notes: Y}: both are in the annotation
C4_Witness ==
  /\ last.op = "patchLocal"
  /\ last.arg = [notes |-> "Y"]
  /\ DOMAIN named[last.id] = {"owner", "notes"}
  /\ named[last.id].owner = "X"
  /\ GetLocal(state, last.id).owner = "X"
  /\ GetLocal(state, last.id).notes = "Y"

(***************************************************************************)
(* C5.  exportSnapshot followed by importSnapshot of the exported value    *)
(* changes neither the opportunities (identifiers, order, normalized       *)
(* fields), nor meta, nor the overlay mapping, and does not raise.         *)
(***************************************************************************)
C5_ExportImportRoundTrip ==
  [][last'.op = "exportImport" =>
       /\ state'.opportunities = state.opportunities
       /\ state'.meta = state.meta
       /\ state'.local = state.local
       /\ ~last'.raised]_vars

\* a round trip of a dataset and an overlay entry that matches no opportunity
C5_Witness ==
  /\ last.op = "exportImport"
  /\ Len(state.opportunities) = 2
  /\ state.meta = "M2"
  /\ \E id \in DOMAIN state.local.entries : id \notin OppIds(state)

(***************************************************************************)
(* C6.  importSnapshot with a local mapping and no opportunities list      *)
(* makes the overlay exactly that mapping, writes it to the slot and       *)
(* leaves meta and opportunities; with an opportunities list and no local  *)
(* mapping it replaces the dataset by the document's and leaves the        *)
(* overlay and the slot.                                                   *)
(***************************************************************************)
C6_ImportPartsIndependent ==
  [][last'.op = "importSnapshot" =>
       /\ (HasLocalMapping(last'.arg) /\ ~HasOpportunitiesList(last'.arg)) =>
            /\ state'.local = last'.arg.local
            /\ storage' = [kind |-> "json", val |-> last'.arg.local]
            /\ DatasetOf(state') = DatasetOf(state)
       /\ (HasOpportunitiesList(last'.arg) /\ last'.arg.local.kind \notin {"object", "array"}) =>
            /\ state'.meta = MetaIn(last'.arg)
            /\ RawsOf(state') = RecordsIn(last'.arg)
            /\ state'.local = state.local
            /\ storage' = storage]_vars

(***************************************************************************)
(* C7.  No step of loadDataset, whether its candidate fails or is          *)
(* accepted, and no import of a document without a local part, changes the *)
(* overlay or the slot.                                                    *)
(***************************************************************************)
C7_LoadLeavesOverlay ==
  [][(\/ last'.op \in LoaderOps
      \/ /\ last'.op = "importSnapshot"
         /\ last'.arg.local.kind \notin {"object", "array"})
     => state'.local = state.local /\ storage' = storage]_vars

\* a load accepted a dataset that lacks the identifier of an overlay entry
C7_Witness ==
  /\ LoadJustEnded
  /\ accepted # NoAccept
  /\ \E id \in DOMAIN state.local.entries : id \notin OppIds(state)
  /\ storage.kind = "json"

(***************************************************************************)
(* C8.  Whatever the slot holds that is not a well-formed overlay mapping  *)
(* (nothing, unparseable text, a JSON value that is no object), the store  *)
(* is built with an empty overlay mapping, and getLocal, patchLocal,       *)
(* patchScore and moveStatus never raise.                                  *)
(***************************************************************************)
IllFormedSlot(slot) ==
  slot.kind \in {"absent", "empty", "garbage"} \/ slot.val.kind # "object"

C8_CorruptSlotDegrades ==
  /\ (last.op = "createStore" /\ IllFormedSlot(storage)) => state.local = EmptyObject
  /\ last.op \in {"getLocal", "patchLocal", "patchScore", "moveStatus", "statusEdit"}
       => ~last.raised

(***************************************************************************)
(* C9.  moveStatus changes neither the overlay mapping nor the slot when   *)
(* the current status is none of the six pipeline statuses, when it is the *)
(* first and direction is -1, and when it is the last and direction is +1. *)
(***************************************************************************)
C9_MoveStatusNoOp ==
  [][(/\ last'.op = "moveStatus"
      /\ LET s == GetLocal(state, last'.id).status
             d == last'.arg.direction
         IN \/ \A i \in DOMAIN FixedOrder : FixedOrder[i] # s
            \/ d = -1 /\ s = FixedOrder[1]
            \/ d = 1 /\ s = FixedOrder[6])
     => state'.local = state.local /\ storage' = storage /\ ~last'.raised]_vars

\* a move from a status that is no pipeline status
C9_Witness ==
  /\ last.op = "moveStatus"
  /\ last.arg.from = "Inconnu"
  /\ last.arg.direction = 1
  /\ GetLocal(state, last.id).status = "Inconnu"

(***************************************************************************)
(* C10.  From the pipeline status at position i, with i + direction in     *)
(* range, moveStatus sets the status at position i + direction of the      *)
(* fixed order, keeps every other field of the annotation and every other  *)
(* identifier's annotation; a status edit sets the chosen status whatever  *)
(* the current one is, and keeps the rest as well.                         *)
(***************************************************************************)
OthersKept(st1, st2, id) ==
  /\ DOMAIN st2.local.entries = DOMAIN st1.local.entries \cup {id}
  /\ \A k \in Fields \ {"status"} : st2.local.entries[id][k] = GetLocal(st1, id)[k]
  /\ \A j \in DOMAIN st1.local.entries \ {id} : st2.local.entries[j] = st1.local.entries[j]

C10_MoveStatusStep ==
  [][/\ \A i \in 1..6 :
          (/\ last'.op = "moveStatus"
           /\ GetLocal(state, last'.id).status = FixedOrder[i]
           /\ i + last'.arg.direction \in 1..6)
          => /\ OthersKept(state, state', last'.id)
             /\ state'.local.entries[last'.id].status = FixedOrder[i + last'.arg.direction]
     /\ last'.op = "statusEdit"
          => /\ OthersKept(state, state', last'.id)
             /\ state'.local.entries[last'.id].status = last'.arg]_vars

\* a move one step back, on an annotation with other fields set
C10_Witness ==
  /\ last.op = "moveStatus"
  /\ last.arg.from = "Go"
  /\ last.arg.direction = -1
  /\ GetLocal(state, last.id).status = "En analyse"
  /\ GetLocal(state, last.id).owner = "O"

(***************************************************************************)
(* C11.  Within the dataset in place, the ids of the opportunities are     *)
(* pairwise distinct, whatever list of raw records the loader or the       *)
(* import accepted.                                                        *)
(***************************************************************************)
C11_IdsPairwiseDistinct ==
  \A i, j \in 1..Len(state.opportunities) :
    i # j => state.opportunities[i].id # state.opportunities[j].id

(***************************************************************************)
(* C12.  getLocal changes neither the overlay mapping nor the slot and     *)
(* does not raise; for an identifier without an entry it returns the       *)
(* default annotation (first pipeline status, empty texts, the five score  *)
(* fields 0, no blockers) and adds no entry.                               *)
(***************************************************************************)
C12_GetLocalReadsOnly ==
  [][last'.op = "getLocal" =>
       /\ state' = state
       /\ storage' = storage
       /\ ~last'.raised
       /\ last'.id \notin DOMAIN state.local.entries =>
            /\ last'.arg =
                 [notes |-> "", status |-> "A qualifier", owner |-> "", nextAction |-> "",
                  nextDate |-> "",
                  score |-> [strategic_fit |-> 0, eligibility |-> 0, effort |-> 0,
                             impact |-> 0, timing |-> 0, blockers |-> ""]]
            /\ last'.id \notin DOMAIN state'.local.entries]_vars

\* a read of an identifier that has no entry, beside one that has, the slot written
C12_Witness ==
  /\ last.op = "getLocal"
  /\ last.id \notin DOMAIN state.local.entries
  /\ last.arg.status = "A qualifier"
  /\ state.local.entries # NoEntries
  /\ storage = JSONStringify(state.local)

(***************************************************************************)
(* C13.  On a dataset of two opportunities, the first due 2024-01-01 and   *)
(* the second without deadline, the query with only max = 2023-12-31 set   *)
(* returns neither, and the query with only min = 2024-01-01 set returns   *)
(* both, the dated one first: the undated one counts as due 9999-12-31,    *)
(* which is not before the lower bound.                                    *)
(***************************************************************************)
OnlySet(f, k, v) == f = [DefaultFilters EXCEPT ![k] = v]

DatedThenUndated(st) ==
  /\ Len(st.opportunities) = 2
  /\ st.opportunities[1].deadline = "2024-01-01"
  /\ st.opportunities[2].deadline = ""

C13_DeadlineRange ==
  (view.kind = "table" /\ DatedThenUndated(state)) =>
     /\ OnlySet(filters, "max", "2023-12-31") => view.rows = <<>>
     /\ OnlySet(filters, "min", "2024-01-01") => view.rows = state.opportunities

\* the query with only min set, run on that dataset
C13_Witness ==
  /\ view.kind = "table"
  /\ DatedThenUndated(state)
  /\ OnlySet(filters, "min", "2024-01-01")
  /\ Len(view.rows) = 2

\* C13 as the specification words it: with only min = 2024-01-01 set the query
\* returns the first opportunity alone.
C13_MinKeepsFirstOnly ==
  (view.kind = "table" /\ DatedThenUndated(state)) =>
     /\ OnlySet(filters, "max", "2023-12-31") => view.rows = <<>>
     /\ OnlySet(filters, "min", "2024-01-01") => view.rows = <<state.opportunities[1]>>

(***************************************************************************)
(* C14.  The rows of the query are the opportunities that pass the filter, *)
(* each once, ordered by effective deadline (an empty deadline counted as  *)
(* 9999-12-31): non-decreasing when sort is asc, non-increasing otherwise; *)
(* rows of equal effective deadline are in source order; under asc no      *)
(* undated row comes before a dated one.                                   *)
(***************************************************************************)
DueOf(op) == IF op.deadline = "" THEN "9999-12-31" ELSE op.deadline

PositionIn(seq, x) == CHOOSE k \in DOMAIN seq : seq[k] = x

C14_SortedByDeadline ==
  view.kind = "table" =>
    LET rows == view.rows
        opps == state.opportunities
        kept == {k \in DOMAIN opps : Matches(state, filters, opps[k])}
    IN /\ Len(rows) = Cardinality(kept)
       /\ {rows[i] : i \in DOMAIN rows} = {opps[k] : k \in kept}
       /\ \A i, j \in DOMAIN rows :
            i < j =>
              /\ filters.sort = "asc" => DateRank(DueOf(rows[i])) <= DateRank(DueOf(rows[j]))
              /\ filters.sort # "asc" => DateRank(DueOf(rows[i])) >= DateRank(DueOf(rows[j]))
              /\ DueOf(rows[i]) = DueOf(rows[j]) =>
                   PositionIn(opps, rows[i]) < PositionIn(opps, rows[j])
              /\ filters.sort = "asc" => ~(rows[i].deadline = "" /\ rows[j].deadline # "")

\* a descending query of five rows: the two undated ones first, in source order, and
\* the two due the same day last, in source order
C14_Witness ==
  /\ view.kind = "table"
  /\ filters.sort = "desc"
  /\ Len(view.rows) = 5
  /\ view.rows[1].deadline = "" /\ view.rows[2].deadline = ""
  /\ view.rows[1].id = "b" /\ view.rows[2].id = "op-4"
  /\ view.rows[4].id = "a" /\ view.rows[5].id = "d"

(***************************************************************************)
(* C15.  The recommendation shown for a score card whose five numeric      *)
(* fields are each in 0..5 is No-Go (blockers) whenever blockers holds     *)
(* more than whitespace, whatever the numbers; otherwise, with total the   *)
(* sum of the five fields, Go when total >= 20, A approfondir when         *)
(* 12 <= total < 20, No-Go when total < 12.                                *)
(***************************************************************************)
Blank(text) == text \in {"", "  "}

C15_Recommendation ==
  view.kind = "drawer" =>
    LET sc == GetLocal(state, view.id).score
        total == sc.strategic_fit + sc.eligibility + sc.effort + sc.impact + sc.timing
    IN /\ view.total = total
       /\ ~Blank(sc.blockers) => view.reco = "No-Go (blockers)"
       /\ (Blank(sc.blockers) /\ total >= 20) => view.reco = "Go"
       /\ (Blank(sc.blockers) /\ 12 <= total /\ total < 20) => view.reco = "A approfondir"
       /\ (Blank(sc.blockers) /\ total < 12) => view.reco = "No-Go"

\* a total of exactly 20 beside blockers made of whitespace
C15_Witness ==
  /\ view.kind = "drawer"
  /\ GetLocal(state, view.id).score.blockers = "  "
  /\ view.total = 20
  /\ view.reco = "Go"

(***************************************************************************)
(* C16.  importSnapshot does not raise to its caller, whatever the payload *)
(* (an opportunities list with elements that are no records, a local part  *)
(* of any type), and leaves meta and opportunities either both as they     *)
(* were or both as the payload gives them.                                 *)
(***************************************************************************)
C16_ImportNeverRaises ==
  [][last'.op = "importSnapshot" =>
       /\ ~last'.raised
       /\ \/ DatasetOf(state') = DatasetOf(state)
          \/ /\ state'.meta = MetaIn(last'.arg)
             /\ RawsOf(state') = RecordsIn(last'.arg)]_vars

(***************************************************************************)
(* C17.  patchScore sets the score fields its patch names and nothing      *)
(* else: the other score fields keep their value (0 or empty when the      *)
(* identifier had no entry), the other fields of the annotation keep       *)
(* theirs, and the annotations of the other identifiers are unchanged.     *)
(***************************************************************************)
C17_PatchScoreFrame ==
  [][last'.op = "patchScore" =>
       LET id == last'.id
           patch == last'.arg
           before == GetLocal(state, id)
           after == state'.local.entries
       IN /\ ~last'.raised
          /\ DOMAIN after = DOMAIN state.local.entries \cup {id}
          /\ \A k \in ScoreFields :
               after[id].score[k] = IF k \in DOMAIN patch THEN patch[k] ELSE before.score[k]
          /\ \A k \in Fields \ {"score"} : after[id][k] = before[k]
          /\ \A j \in DOMAIN state.local.entries \ {id} : after[j] = state.local.entries[j]]_vars

\* one score field set on an annotation that has another score field, blockers and a
\* status set
C17_Witness ==
  /\ last.op = "patchScore"
  /\ last.arg = [strategic_fit |-> 5]
  /\ state.local.entries[last.id].score.strategic_fit = 5
  /\ state.local.entries[last.id].score.impact = 4
  /\ state.local.entries[last.id].score.blockers = "permit"
  /\ state.local.entries[last.id].status = "Go"

(***************************************************************************)
(* C18.  When a candidate's document parses to a value that is neither a   *)
(* bare list nor an object with an opportunities or items list, the load   *)
(* ends there as accepted: no opportunities, loadError empty,              *)
(* rawDataPath naming that candidate, nothing raised and no later          *)
(* candidate fetched.                                                      *)
(***************************************************************************)
OtherShape(p) ==
  /\ p.shape \in {"object", "null"}
  /\ ~(p.shape = "object" /\ p.key \in {"opportunities", "items"})

C18_OtherShapeAccepted ==
  (last.op = "json" /\ OtherShape(last.arg)) =>
     /\ pc = "done"
     /\ accepted = [cand |-> Len(attempts), payload |-> last.arg]
     /\ state.opportunities = <<>>
     /\ state.loadError = ""
     /\ state.rawDataPath = DATA_CANDIDATES[Len(attempts)]
     /\ ~last.raised

\* the first candidate's document is the JSON value null, after a load that put two
\* opportunities in place: the load ends with none, and the other candidates untried
C18_Witness ==
  /\ last.op = "json"
  /\ last.arg = PNull
  /\ Len(pre.opportunities) = 2
  /\ state.opportunities = <<>>
  /\ attempts = <<1>>
  /\ pc = "done"

(***************************************************************************)
(* C19.  While loadDataset is suspended on a retrieval, meta and           *)
(* opportunities, as any interleaved event reads them, are what they would *)
(* be had the load not started: the dataset changes in the one step that   *)
(* accepts a document, never to a mixture of old and new.                  *)
(***************************************************************************)
C19_PendingLoadShowsPrevious ==
  pc \in {"fetch", "json"} => DatasetOf(state) = pre

(***************************************************************************)
(* C20.  Provided every retrieval settles, a loadDataset that has started  *)
(* completes; it fetches no candidate twice, and once complete either a    *)
(* candidate was accepted and loadError is empty, or none was and          *)
(* loadError is not empty.                                                 *)
(***************************************************************************)
LoadOutcome ==
  /\ \A i, j \in DOMAIN attempts : i # j => attempts[i] # attempts[j]
  /\ \A i \in DOMAIN attempts : attempts[i] \in DOMAIN DATA_CANDIDATES
  /\ pc = "done" =>
       \/ accepted # NoAccept /\ state.loadError = ""
       \/ accepted = NoAccept /\ state.loadError # ""

C20_LoadTerminates ==
  /\ []LoadOutcome
  /\ (pc \in {"fetch", "json"}) ~> (pc = "done")

\* a load that went through the three candidates and accepted none
C20_Witness ==
  /\ LoadJustEnded
  /\ attempts = <<1, 2, 3>>
  /\ accepted = NoAccept
  /\ state.loadError = LoadErrorMessage

(***************************************************************************)
(* C21.  importSnapshot leaves loadError and rawDataPath as they are, and  *)
(* loadError changes only in a step of loadDataset: after a load that      *)
(* failed, an import of a dataset puts its opportunities in place beside   *)
(* the advisory of the failed load.                                        *)
(***************************************************************************)
C21_ImportLeavesLoadError ==
  [][/\ last'.op \in {"importSnapshot", "exportImport"} =>
          /\ state'.loadError = state.loadError
          /\ state'.rawDataPath = state.rawDataPath
     /\ state'.loadError # state.loadError => last'.op \in {"fetch", "json"}]_vars

\* a failed load, then an import of a dataset of two opportunities
C21_Witness ==
  /\ last.op = "importSnapshot"
  /\ ~last.raised
  /\ RawsOf(state) = RecordsIn(last.arg)
  /\ Len(state.opportunities) = 2
  /\ state.loadError = LoadErrorMessage
  /\ state.rawDataPath = NoPath

====
